---- MODULE Spec2Model ----
(***************************************************************************)
(* Model of password-manager/src/user_interface.rs: the menu loop          *)
(* start_ui_loop, the credential prompt obtain_master_credentials with its *)
(* retry counter, the MasterCredentials container and its Drop, and the    *)
(* menu handlers.  The database and encryption modules the handlers call   *)
(* are modelled by the operators of the section "Collaborators".           *)
(*                                                                         *)
(* Strings that matter (passwords, hashes, ciphertexts) are sequences of   *)
(* one-character tokens, so that hashing and encryption are conversions    *)
(* and not the identity.  Usernames, account names and console input are   *)
(* TLA+ strings.                                                           *)
(***************************************************************************)
EXTENDS Integers, Sequences, FiniteSets, TLC

\* ------------------------------------------------------------------------
\* Bounds of the model
\* ------------------------------------------------------------------------
MaxAccounts == 1
NumSalts == 1

\* what a user can type at a password prompt (get_password)
Passwords == {<<>>, <<"a">>, <<"b">>}
\* what a user can type at the master username prompt
UsernameInputs == {"", "default", "alice"}
\* what a user can type at the "account ID or name" prompts
LookupInputs == {"1", "2", "n1"}
\* what a user can type at the account name prompt
AccountNames == {"n1", "2"}
SaltName(n) == CASE n = 1 -> "s1" [] n = 2 -> "s2" [] OTHER -> "s3"
Salts == {SaltName(n) : n \in 1..NumSalts}

\* ------------------------------------------------------------------------
\* Collaborators: crate::encryption and crate::database
\* ------------------------------------------------------------------------
\* hash_master_password: salted one-way hash, salt embedded in the output
HashOf(pw, s) == <<"$", s>> \o pw

IsHash(h) == Len(h) >= 2 /\ h[1] = "$" /\ h[2] \in Salts

\* recomputes the hash with the embedded salt and compares
VerifyHash(h, pw) == IsHash(h) /\ h = HashOf(pw, h[2])

\* the results hash_master_password can return for pw: Ok(hash) with a
\* fresh salt, or Err
HashResults(pw) == {[ok |-> TRUE, hash |-> HashOf(pw, s)] : s \in Salts}
                     \cup {[ok |-> FALSE, hash |-> <<>>]}

\* encrypt_password: envelope bound to the key derived from the master
\* password
Encrypt(key, plain) == <<"enc">> \o key \o <<"|">> \o plain

DecryptOk(key, c) ==
    /\ Len(c) >= Len(key) + 2
    /\ c[1] = "enc"
    /\ SubSeq(c, 2, Len(key) + 1) = key
    /\ c[Len(key) + 2] = "|"

\* decrypt_password: the plaintext, or a failure marker
Decrypt(key, c) ==
    IF DecryptOk(key, c) THEN SubSeq(c, Len(key) + 3, Len(c)) ELSE <<"!">>

\* i64 parse of a console line
ParseOk(s) == s \in {"1", "2", "3"}
ParseI64(s) == CASE s = "1" -> 1 [] s = "2" -> 2 [] s = "3" -> 3 [] OTHER -> 0

\* get_master_by_username: the ids of the records with that username
MasterByUsername(ms, u) == {i \in DOMAIN ms : ms[i].username = u}

\* verify_master: Ok(true) when the record of u verifies p, Ok(false) when
\* there is no record or the password is wrong, Err on a failed query or a
\* malformed stored hash
VerifyOutcomes(ms, u, p) ==
    {"err"} \cup
    (IF \E i \in MasterByUsername(ms, u) : ~IsHash(ms[i].password)
     THEN {}
     ELSE IF \E i \in MasterByUsername(ms, u) : VerifyHash(ms[i].password, p)
          THEN {"ok_true"}
          ELSE {"ok_false"})

MaxId(acc) == IF DOMAIN acc = {} THEN 0
              ELSE CHOOSE i \in DOMAIN acc : \A j \in DOMAIN acc : j <= i

\* get_account_by_id / get_account_by_name: the matching ids
AccountById(acc, id) == {i \in DOMAIN acc : i = id}
AccountByName(acc, n) == {i \in DOMAIN acc : acc[i].name = n}

\* the rows a console line selects: by id when it parses as i64, else by name
Lookup(acc, input) ==
    IF ParseOk(input) THEN AccountById(acc, ParseI64(input))
    ELSE AccountByName(acc, input)

\* the table without the rows in ids
Without(acc, ids) == [i \in DOMAIN acc \ ids |-> acc[i]]

\* the table with row id set to rec
WithRow(tbl, id, rec) ==
    [i \in DOMAIN tbl \cup {id} |-> IF i = id THEN rec ELSE tbl[i]]

\* ------------------------------------------------------------------------
\* State
\* ------------------------------------------------------------------------
VARIABLES
    flag,            \* SINGLE_MASTER_FLAG of the build
    choice,          \* user_choice of start_ui_loop: the last menu choice read
    pc,              \* position of the program
    site,            \* call site of the running obtain_master_credentials
    attempts,        \* its retry counter
    verifies,        \* verify_master calls made by it so far
    verdict,         \* result of the last verify_master call
    accepted,        \* credentials verify_master accepted since the last menu choice
    candidate,       \* buffer of the last password read by obtain_master_credentials
    session,         \* _result of start_ui_loop
    master,          \* MasterCredentials local to the running handler
    masters,         \* table of master records
    accounts,        \* table of account records
    account,         \* account local to the running handler
    fetched,         \* master record fetched by handle_change_master_password
    typed,           \* new password typed in the running handler
    updated_master,  \* record handle_change_master_password passes to update_master
    updated_account, \* record update_account_details passes to update_account
    shown,           \* password last printed by print_account_details
    lastOp,          \* last call into the collaborators
    output           \* last line printed

vars == <<flag, choice, pc, site, attempts, verifies, verdict, accepted,
          candidate, session, master, masters, accounts, account, fetched,
          typed, updated_master, updated_account, shown, lastOp, output>>

\* variant: one attempt more
InitialAttemptsFour == 3 + 1

\* let mut attempts = 3
InitialAttempts == 3

NoCreds == [username |-> "", password |-> <<>>, state |-> "none"]
NoAccepted == [ok |-> FALSE, username |-> "", password |-> <<>>]
NoAccount == [id |-> 0, name |-> "", password |-> <<>>]
NoMaster == [id |-> 0, username |-> "", password |-> <<>>]
NoOp == [op |-> "none", user |-> "", key |-> <<>>, result |-> ""]
NoCandidate == [text |-> <<>>, state |-> "none"]

Op(o, k, r) == [op |-> o, user |-> "", key |-> k, result |-> r]
Say(m, n) == [msg |-> m, n |-> n]

\* MasterCredentials { username, password }
MasterCredentials(u, p) == [username |-> u, password |-> p, state |-> "live"]

\* Drop for MasterCredentials: zeroize() overwrites and clears both strings
Drop(c) ==
    IF c.state = "live"
    THEN [username |-> "", password |-> <<>>, state |-> "zeroized"]
    ELSE c

\* the master table after setup: one record, named "default"
InitMasters ==
    1 :> [id |-> 1, username |-> "default", password |-> HashOf(<<"a">>, "s1")]

\* start_ui_loop has just called obtain_master_credentials
Init ==
    /\ flag \in BOOLEAN
    /\ choice = "none"
    /\ pc = "obtain"
    /\ site = "start"
    /\ attempts = InitialAttempts
    /\ verifies = 0
    /\ verdict = "none"
    /\ accepted = NoAccepted
    /\ candidate = NoCandidate
    /\ session = NoCreds
    /\ master = NoCreds
    /\ masters = InitMasters
    /\ accounts = <<>>
    /\ account = NoAccount
    /\ fetched = NoMaster
    /\ typed = <<>>
    /\ updated_master = NoMaster
    /\ updated_account = NoAccount
    /\ shown = <<>>
    /\ lastOp = NoOp
    /\ output = Say("", 0)

\* ------------------------------------------------------------------------
\* obtain_master_credentials
\* ------------------------------------------------------------------------
\* entry of obtain_master_credentials from call site s: let mut attempts = 3
EnterObtain(s) ==
    /\ pc' = "obtain"
    /\ site' = s
    /\ attempts' = InitialAttempts
    /\ verifies' = 0
    /\ verdict' = "none"
    /\ candidate' = NoCandidate

\* no call of obtain_master_credentials is running: its locals do not exist
ObtainIdle ==
    /\ site' = "none"
    /\ attempts' = InitialAttempts
    /\ verifies' = 0
    /\ verdict' = "none"
    /\ candidate' = NoCandidate

\* variant: Err(_) is grouped with Ok(true)
AcceptedOnErr(r) == r \in {"ok_true", "err"}

\* variant: Ok(false) is taken for a success as well
AcceptedAnyOk(r) == r \in {"ok_true", "ok_false"}

\* the match arm Ok(true)
Accepted(r) == r = "ok_true"

\* variant: an Err does not consume an attempt
DecrementSkipsErr(r, a) == IF r = "err" THEN a ELSE a - 1

\* attempts -= 1, in the arm shared by Ok(false) and Err(_)
Decrement(r, a) == a - 1

\* variant: off by one, the counter has to go below zero
ExhaustedOffByOne(a) == a < 0

\* if attempts <= 0
Exhausted(a) == a <= 0

\* variant: exhaustion returns to the menu loop as a recoverable failure
ExhaustedPcReturns == "menu"

\* process::exit(1)
ExhaustedPc == "exit1"

\* where the caller continues once the credentials are returned
ReturnPc(s) ==
    CASE s = "start" -> "menu"
      [] s = "add" -> "add_encrypt"
      [] s = "get" -> "get_decrypt"
      [] s = "change" -> "change_fetch"
      [] s = "update" -> "upd_encrypt"

\* the username of one loop iteration: fixed in single-master mode, read
\* from the console otherwise
UsernameChoices == IF flag THEN {"default"} ELSE UsernameInputs

\* one iteration of the loop: read the credentials, call verify_master,
\* return them or count the failure
ObtainAttempt ==
    /\ pc = "obtain"
    /\ UNCHANGED <<choice, updated_account>>
    /\ \E u \in UsernameChoices, p \in Passwords :
       \E r \in VerifyOutcomes(masters, u, p) :
        /\ verifies' = verifies + 1
        /\ verdict' = r
        /\ lastOp' = [Op("verify_master", p, r) EXCEPT !.user = u]
        /\ accepted' = IF r = "ok_true"
                       THEN [ok |-> TRUE, username |-> u, password |-> p]
                       ELSE accepted
        /\ IF Accepted(r)
           THEN /\ output' = Say("Logging in...", 0)
                /\ candidate' = [text |-> p, state |-> "moved"]
                /\ pc' = ReturnPc(site)
                /\ IF site = "start"
                   THEN /\ session' = MasterCredentials(u, p)
                        /\ UNCHANGED master
                   ELSE /\ master' = MasterCredentials(u, p)
                        /\ UNCHANGED session
                /\ UNCHANGED attempts
           ELSE /\ attempts' = Decrement(r, attempts)
                /\ IF Exhausted(attempts')
                   THEN \* the process exits with password still in scope
                        /\ output' = Say("Max attempts reached. Exiting...", 0)
                        /\ candidate' = [text |-> p, state |-> "live"]
                        /\ pc' = ExhaustedPc
                   ELSE \* password goes out of scope: a String is freed as it is
                        /\ output' = Say("Invalid credentials. Please try again.", attempts')
                        /\ candidate' = [text |-> p, state |-> "freed"]
                        /\ pc' = "obtain"
                /\ UNCHANGED <<session, master>>
    /\ UNCHANGED <<flag, site, masters, accounts, account, fetched, typed,
                   updated_master, shown>>

\* ------------------------------------------------------------------------
\* start_ui_loop: one menu choice
\* ------------------------------------------------------------------------
\* the locals of the previous handler are gone when the next choice is read
Dispatch ==
    /\ accepted' = NoAccepted
    /\ fetched' = NoMaster
    /\ typed' = <<>>
    /\ updated_master' = NoMaster
    /\ updated_account' = NoAccount
    /\ shown' = <<>>

\* "1": handle_add_account up to its call of obtain_master_credentials
ChooseAdd ==
    /\ pc = "menu"
    /\ choice' = "1"
    /\ MaxId(accounts) < MaxAccounts
    /\ \E n \in AccountNames, p \in Passwords :
        account' = [id |-> 0, name |-> n, password |-> p]
    /\ Dispatch
    /\ EnterObtain("add")
    /\ lastOp' = Op("read_choice", <<>>, "1")
    /\ output' = Say("Enter master password: ", 0)
    /\ UNCHANGED <<flag, session, master, masters, accounts>>

\* let encrypted_password = encrypt_password(&master.password, &password)
CipherKey(m, s) == m.password

AddEncrypt ==
    /\ pc = "add_encrypt"
    /\ UNCHANGED <<choice, updated_account>>
    /\ account' = [account EXCEPT
                     !.password = Encrypt(CipherKey(master, session), account.password)]
    /\ lastOp' = Op("encrypt_password", CipherKey(master, session), "ok")
    /\ pc' = "add_store"
    /\ UNCHANGED <<flag, site, attempts, verifies, verdict, accepted, candidate,
                   session, master, masters, accounts, fetched, typed,
                   updated_master, shown, output>>

\* add_account, then the handler returns and master is dropped
AddStore ==
    /\ pc = "add_store"
    /\ UNCHANGED <<choice, updated_account>>
    /\ \E ok \in BOOLEAN :
        IF ok
        THEN /\ accounts' = WithRow(accounts, MaxId(accounts) + 1,
                                    [account EXCEPT !.id = MaxId(accounts) + 1])
             /\ lastOp' = Op("add_account", <<>>, "ok")
             /\ output' = Say("", 0)
        ELSE /\ UNCHANGED accounts
             /\ lastOp' = Op("add_account", <<>>, "err")
             /\ output' = Say("Failed to list accounts", 0)
    /\ master' = Drop(master)
    /\ pc' = "menu"
    /\ UNCHANGED <<flag, site, attempts, verifies, verdict, accepted, candidate,
                   session, masters, account, fetched, typed, updated_master,
                   shown>>

\* "2": handle_list_accounts
ChooseList ==
    /\ pc = "menu"
    /\ choice' = "2"
    /\ Dispatch
    /\ account' = NoAccount
    /\ \E ok \in BOOLEAN :
        /\ lastOp' = Op("list_accounts", <<>>, IF ok THEN "ok" ELSE "err")
        /\ output' = IF ok THEN Say("Listing accounts: ", Cardinality(DOMAIN accounts))
                     ELSE Say("Failed to list accounts", 0)
    /\ ObtainIdle
    /\ UNCHANGED <<flag, pc, session, master, masters, accounts>>

\* "3": handle_get_account up to its call of obtain_master_credentials, or
\* to its end when the account is not found
ChooseGet ==
    /\ pc = "menu"
    /\ choice' = "3"
    /\ Dispatch
    /\ \E input \in LookupInputs :
        IF Lookup(accounts, input) # {}
        THEN /\ \E i \in Lookup(accounts, input) : account' = accounts[i]
             /\ EnterObtain("get")
             /\ lastOp' = Op("get_account", <<>>, "ok")
             /\ output' = Say("Enter master password: ", 0)
        ELSE /\ account' = NoAccount
             /\ lastOp' = Op("get_account", <<>>, "err")
             /\ output' = Say("Error fetching account", 0)
             /\ ObtainIdle
             /\ UNCHANGED pc
    /\ UNCHANGED <<flag, session, master, masters, accounts>>

\* print_account_details, then the handler returns and master is dropped
GetDecrypt ==
    /\ pc = "get_decrypt"
    /\ UNCHANGED <<choice, updated_account>>
    /\ lastOp' = Op("decrypt_password", CipherKey(master, session),
                    IF DecryptOk(CipherKey(master, session), account.password)
                    THEN "ok" ELSE "err")
    /\ output' = [msg |-> "Password: ", n |-> 0]
    /\ shown' = Decrypt(CipherKey(master, session), account.password)
    /\ master' = Drop(master)
    /\ pc' = "menu"
    /\ UNCHANGED <<flag, site, attempts, verifies, verdict, accepted, candidate,
                   session, masters, accounts, account, fetched, typed,
                   updated_master>>

\* "4": handle_update_account.  The future update_account_details returns
\* is dropped without being awaited, so its body does not run
ChooseUpdate ==
    /\ pc = "menu"
    /\ choice' = "4"
    /\ Dispatch
    /\ \E input \in LookupInputs :
        IF Lookup(accounts, input) # {}
        THEN /\ \E i \in Lookup(accounts, input) : account' = accounts[i]
             /\ lastOp' = Op("get_account", <<>>, "ok")
             /\ output' = Say("Enter the account ID or name to update:", 0)
        ELSE /\ account' = NoAccount
             /\ lastOp' = Op("get_account", <<>>, "err")
             /\ output' = Say("No account found", 0)
    /\ ObtainIdle
    /\ UNCHANGED <<flag, pc, session, master, masters, accounts>>

\* "5": handle_delete_account
ChooseDelete ==
    /\ pc = "menu"
    /\ choice' = "5"
    /\ Dispatch
    /\ account' = NoAccount
    /\ \E input \in LookupInputs, ok \in BOOLEAN :
        IF ok
        THEN /\ accounts' = Without(accounts, Lookup(accounts, input))
             /\ lastOp' = Op("delete_account", <<>>, "ok")
             /\ output' = Say("Enter account ID or name:", 0)
        ELSE /\ UNCHANGED accounts
             /\ lastOp' = Op("delete_account", <<>>, "err")
             /\ output' = Say("Error fetching account", 0)
    /\ ObtainIdle
    /\ UNCHANGED <<flag, pc, session, master, masters>>

\* "6": handle_change_master_password up to its call of
\* obtain_master_credentials
ChooseChange ==
    /\ pc = "menu"
    /\ choice' = "6"
    /\ Dispatch
    /\ account' = NoAccount
    /\ EnterObtain("change")
    /\ lastOp' = Op("read_choice", <<>>, "6")
    /\ output' = Say("Login with master account to update:", 0)
    /\ UNCHANGED <<flag, session, master, masters, accounts>>

\* get_master_by_username(pool, &master_creds.username)
ChangeFetch ==
    /\ pc = "change_fetch"
    /\ UNCHANGED <<choice, updated_account>>
    /\ \/ \E i \in MasterByUsername(masters, master.username) :
            /\ fetched' = masters[i]
            /\ lastOp' = Op("get_master_by_username", <<>>, "ok")
            /\ pc' = "change_input"
            /\ UNCHANGED <<master, output>>
       \/ /\ lastOp' = Op("get_master_by_username", <<>>, "err")
          /\ output' = Say("No master found with that username", 0)
          /\ master' = Drop(master)
          /\ pc' = "menu"
          /\ UNCHANGED fetched
    /\ UNCHANGED <<flag, site, attempts, verifies, verdict, accepted, candidate,
                   session, masters, accounts, account, typed, updated_master,
                   shown>>

\* variant: the username is prompted for in single-master mode as well
NewUsernameIgnoresFlag(input, stored) == IF input = "" THEN stored ELSE input

\* the username of the updated record
NewUsername(input, stored) ==
    IF flag THEN stored
    ELSE IF input = "" THEN stored ELSE input

\* variant: the typed password is stored without being hashed
NewMasterPasswordPlain(p, stored, h) == IF p = <<>> THEN stored ELSE p

\* the password of the updated record: the stored hash for an empty input,
\* else the hash h of the input
NewMasterPassword(p, stored, h) == IF p = <<>> THEN stored ELSE h

\* variant: the updated record is built with a fresh id
UpdatedIdFresh(m) == 0

\* id: master.id
UpdatedId(m) == m.id

\* variant: the hasher is called before the input is tested for emptiness
HashCalledAlways(p) == TRUE

\* hash_master_password is called in the else branch of password.is_empty()
HashCalled(p) == p # <<>>

\* the prompts of handle_change_master_password and the construction of
\* updated_master
ChangeInput ==
    /\ pc = "change_input"
    /\ UNCHANGED <<choice, updated_account>>
    /\ \E u \in UsernameInputs, p \in Passwords :
       \E h \in (IF HashCalled(p) THEN HashResults(p)
                ELSE {[ok |-> TRUE, hash |-> <<>>]}) :
        /\ h.ok
        /\ typed' = p
        /\ updated_master' = [id |-> UpdatedId(fetched),
                              username |-> NewUsername(u, fetched.username),
                              password |-> NewMasterPassword(p, fetched.password, h.hash)]
        /\ lastOp' = IF HashCalled(p) THEN Op("hash_master_password", p, "ok")
                     ELSE lastOp
    /\ pc' = "change_update"
    /\ UNCHANGED <<flag, site, attempts, verifies, verdict, accepted, candidate,
                   session, master, masters, accounts, account, fetched, shown,
                   output>>

\* hash_master_password(&password).expect("Error hashing password") on an
\* Err: the thread panics; the stack is unwound, or the process aborts when
\* the build sets panic = "abort"
ChangePanic ==
    /\ pc = "change_input"
    /\ UNCHANGED <<choice, updated_account>>
    /\ \E p \in {q \in Passwords : HashCalled(q)} :
        /\ [ok |-> FALSE, hash |-> <<>>] \in HashResults(p)
        /\ typed' = p
        /\ lastOp' = Op("hash_master_password", p, "err")
    /\ \E unwind \in BOOLEAN :
        /\ master' = IF unwind THEN Drop(master) ELSE master
        /\ session' = IF unwind THEN Drop(session) ELSE session
    /\ output' = Say("Error hashing password", 0)
    /\ pc' = "panicked"
    /\ UNCHANGED <<flag, site, attempts, verifies, verdict, accepted, candidate,
                   masters, accounts, account, fetched, updated_master, shown>>

\* update_master(pool, &updated_master), then the handler returns and
\* master_creds is dropped
ChangeUpdate ==
    /\ pc = "change_update"
    /\ UNCHANGED <<choice, updated_account>>
    /\ \/ /\ \A i \in DOMAIN masters :
                masters[i].username = updated_master.username => i = updated_master.id
          /\ masters' = IF updated_master.id \in DOMAIN masters
                        THEN WithRow(masters, updated_master.id, updated_master)
                        ELSE masters
          /\ lastOp' = Op("update_master", <<>>, "ok")
          /\ output' = Say("Account was updated successfully.", updated_master.id)
       \/ /\ UNCHANGED masters
          /\ lastOp' = Op("update_master", <<>>, "err")
          /\ output' = Say("Failed to update account", updated_master.id)
    /\ master' = Drop(master)
    /\ pc' = "menu"
    /\ UNCHANGED <<flag, site, attempts, verifies, verdict, accepted, candidate,
                   session, accounts, account, fetched, typed, updated_master,
                   shown>>

\* "x": break; start_ui_loop returns and _result is dropped
ChooseExit ==
    /\ pc = "menu"
    /\ choice' = "x"
    /\ session' = Drop(session)
    /\ lastOp' = Op("read_choice", <<>>, "x")
    /\ output' = Say("Exiting...", 0)
    /\ pc' = "exited"
    /\ Dispatch
    /\ ObtainIdle
    /\ UNCHANGED <<flag, master, masters, accounts, account>>

\* any other line
ChooseInvalid ==
    /\ pc = "menu"
    /\ choice' = "?"
    /\ lastOp' = Op("read_choice", <<>>, "?")
    /\ output' = Say("Invalid option, please try again.", 0)
    /\ Dispatch
    /\ ObtainIdle
    /\ UNCHANGED <<flag, pc, session, master, masters, accounts, account>>

Next ==
    \/ ObtainAttempt
    \/ ChooseAdd
    \/ AddEncrypt
    \/ AddStore
    \/ ChooseList
    \/ ChooseGet
    \/ GetDecrypt
    \/ ChooseUpdate
    \/ ChooseDelete
    \/ ChooseChange
    \/ ChangeFetch
    \/ ChangeInput
    \/ ChangePanic
    \/ ChangeUpdate
    \/ ChooseExit
    \/ ChooseInvalid

Spec == Init /\ [][Next]_vars

\* ------------------------------------------------------------------------
\* update_account_details: its body, as it runs when the future is polled
\* ------------------------------------------------------------------------
\* the state in which handle_update_account has found the account and the
\* body of update_account_details starts: the master password is m, the
\* account was stored by handle_add_account under m
InitUpdate ==
    /\ flag \in BOOLEAN
    /\ choice = "4"
    /\ pc = "upd_input"
    /\ site = "none"
    /\ attempts = InitialAttempts
    /\ verifies = 0
    /\ verdict = "none"
    /\ accepted = NoAccepted
    /\ candidate = NoCandidate
    /\ master = NoCreds
    /\ \E m \in Passwords \ {<<>>} :
        /\ session = MasterCredentials("default", m)
        /\ masters = (1 :> [id |-> 1, username |-> "default",
                            password |-> HashOf(m, "s1")])
        /\ \E n \in AccountNames, plain \in Passwords :
            accounts = (1 :> [id |-> 1, name |-> n, password |-> Encrypt(m, plain)])
    /\ account = accounts[1]
    /\ fetched = NoMaster
    /\ typed = <<>>
    /\ updated_master = NoMaster
    /\ updated_account = NoAccount
    /\ shown = <<>>
    /\ lastOp = Op("get_account", <<>>, "ok")
    /\ output = Say("Current account details:", 0)

\* let name = if name.is_empty() { account.name.clone() } else { name }
UpdatedName(n, stored) == IF n = "" THEN stored ELSE n

\* let password = if password.is_empty() { account.password.clone() } else
\* { password }
UpdatedPassword(p, stored) == IF p = <<>> THEN stored ELSE p

\* the prompts of update_account_details up to its call of
\* obtain_master_credentials; updated_account.password holds the local
\* password until it is encrypted
UpdInput ==
    /\ pc = "upd_input"
    /\ \E n \in AccountNames \cup {""}, p \in Passwords :
        /\ typed' = p
        /\ updated_account' = [id |-> account.id,
                               name |-> UpdatedName(n, account.name),
                               password |-> UpdatedPassword(p, account.password)]
    /\ EnterObtain("update")
    /\ output' = Say("Enter master password: ", 0)
    /\ UNCHANGED <<flag, choice, accepted, session, master, masters, accounts,
                   account, fetched, updated_master, shown, lastOp>>

\* let encrypted_password = encrypt_password(&master.password, &password)
UpdEncrypt ==
    /\ pc = "upd_encrypt"
    /\ updated_account' = [updated_account EXCEPT
                             !.password = Encrypt(CipherKey(master, session),
                                                  updated_account.password)]
    /\ lastOp' = Op("encrypt_password", CipherKey(master, session), "ok")
    /\ pc' = "upd_store"
    /\ UNCHANGED <<flag, choice, site, attempts, verifies, verdict, accepted,
                   candidate, session, master, masters, accounts, account,
                   fetched, typed, updated_master, shown, output>>

\* update_account(pool, &updated_account), then master is dropped
UpdStore ==
    /\ pc = "upd_store"
    /\ \E ok \in BOOLEAN :
        IF ok
        THEN /\ accounts' = WithRow(accounts, updated_account.id, updated_account)
             /\ lastOp' = Op("update_account", <<>>, "ok")
             /\ output' = Say("Account was updated successfully.", updated_account.id)
        ELSE /\ UNCHANGED accounts
             /\ lastOp' = Op("update_account", <<>>, "err")
             /\ output' = Say("Failed to update account", updated_account.id)
    /\ master' = Drop(master)
    /\ pc' = "menu"
    /\ UNCHANGED <<flag, choice, site, attempts, verifies, verdict, accepted,
                   candidate, session, masters, account, fetched, typed,
                   updated_master, updated_account, shown>>

NextUpdate ==
    \/ UpdInput
    \/ ObtainAttempt
    \/ UpdEncrypt
    \/ UpdStore

SpecUpdate == InitUpdate /\ [][NextUpdate]_vars

\* ------------------------------------------------------------------------
\* Properties
\* ------------------------------------------------------------------------
\* C1: within one call of obtain_master_credentials verify_master is invoked
\* at most 3 times: after three rejected attempts the call has ended in the
\* exhausted outcome, and the loop never waits for a fourth attempt.
C1_AtMostThreeVerifications ==
    /\ verifies <= 3
    /\ (pc = "obtain" => verifies < 3)
    /\ (verifies = 3 /\ verdict \in {"ok_false", "err"} => pc = "exit1")

C1_Witness == verifies = 3 /\ verdict = "ok_false" /\ pc = "exit1"

\* C2: retry exhaustion is absorbing: once the retry counter of a call has
\* reached zero, no step is taken any more: no menu choice is read and no
\* verify, encrypt, decrypt, hash or database call is made.
C2_ExhaustionIsTerminal ==
    [][attempts <= 0 =>
        /\ pc' = pc
        /\ lastOp' = lastOp
        /\ verifies' = verifies
        /\ masters' = masters
        /\ accounts' = accounts]_vars

C2_Witness == attempts = 0 /\ pc = "exit1" /\ site = "get"

\* C3: every encrypt_password and decrypt_password call is keyed with a
\* master password that verify_master accepted (Ok(true)) since the handler
\* was entered.
C3_CipherKeyVerified ==
    lastOp.op \in {"encrypt_password", "decrypt_password"} =>
        /\ accepted.ok
        /\ lastOp.key = accepted.password

C3_Witness ==
    /\ lastOp.op = "decrypt_password"
    /\ lastOp.result = "ok"
    /\ accepted.ok

\* C4: when the process has ended, by the choice "x" or by the exit on
\* retry exhaustion, every MasterCredentials that was constructed has been
\* zeroized.
C4_ZeroizedOnEveryExit ==
    pc \in {"exited", "exit1"} =>
        /\ session.state # "live"
        /\ master.state # "live"

\* C5: at most one live MasterCredentials holding a validated master
\* password exists at any time.
C5_SingleLiveCredentials ==
    ~(session.state = "live" /\ master.state = "live")

\* C6: a candidate master password that verify_master rejected has been
\* zeroized when the next prompt is shown or the process exits.
C6_RejectedCandidateZeroized ==
    (verdict \in {"ok_false", "err"} /\ pc \in {"obtain", "exit1"}) =>
        candidate.state = "zeroized"

\* what the session reports after a rejected attempt that leaves a attempts
RejectReport(a) ==
    IF a <= 0 THEN Say("Max attempts reached. Exiting...", 0)
    ELSE Say("Invalid credentials. Please try again.", a)

\* an attempt of the running call whose verification returned r
AttemptStep(r) == pc = "obtain" /\ verifies' = verifies + 1 /\ verdict' = r

\* the effect of a wrong credential on the session
WrongCredentialEffect ==
    /\ attempts' = attempts - 1
    /\ output' = RejectReport(attempts - 1)
    /\ pc' = IF attempts - 1 <= 0 THEN "exit1" ELSE "obtain"
    /\ UNCHANGED <<session, master>>

\* C7 (as stated): an attempt for which verify_master returns Err has an
\* effect on the session (retry counter, reported outcome) different from
\* the effect of a wrong credential.
C7_ErrDistinctFromInvalid ==
    [][AttemptStep("err") => ~WrongCredentialEffect]_vars

\* C7 (amended): an attempt for which verify_master returns Err has exactly
\* the effect of an attempt for which it returns Ok(false): the retry counter
\* drops by one and the same outcome is reported.
C7_ErrHandledAsInvalid ==
    [][(AttemptStep("err") \/ AttemptStep("ok_false")) => WrongCredentialEffect]_vars

C7_Witness ==
    /\ verdict = "err"
    /\ pc = "obtain"
    /\ attempts = 2
    /\ output = RejectReport(2)

\* C8: when hash_master_password returns an error in
\* handle_change_master_password, control is back in the menu loop with the
\* master table as it was.
C8_HashFailureReturnsToMenu ==
    (lastOp.op = "hash_master_password" /\ lastOp.result = "err") =>
        /\ pc = "menu"
        /\ masters[fetched.id] = fetched

\* C9: the record passed to update_master has the id of the record fetched
\* for the authenticated username; when the new-password input is empty its
\* password is the stored hash, and the authenticated master password still
\* verifies after the update.
C9_ChangePreservesIdentity ==
    (pc = "change_update" \/ lastOp.op = "update_master") =>
        /\ fetched.username = accepted.username
        /\ fetched.id \in DOMAIN masters
        /\ updated_master.id = fetched.id
        /\ typed = <<>> =>
            /\ updated_master.password = fetched.password
            /\ "ok_true" \in VerifyOutcomes(masters, masters[fetched.id].username,
                                            accepted.password)

C9_Witness ==
    /\ lastOp.op = "update_master"
    /\ lastOp.result = "ok"
    /\ typed = <<>>
    /\ updated_master.username # fetched.username
    /\ masters[fetched.id] = updated_master

\* C10: the stored master password field is always a hasher output; the
\* password of the record passed to update_master is the stored hash or a
\* hash of the typed text, never the typed text.
C10_StoredPasswordIsHash ==
    /\ \A i \in DOMAIN masters : IsHash(masters[i].password)
    /\ (pc = "change_update" \/ lastOp.op = "update_master") =>
        /\ updated_master.password # typed
        /\ \/ updated_master.password = fetched.password
           \/ \E s \in Salts : updated_master.password = HashOf(typed, s)

C10_Witness ==
    /\ lastOp.op = "update_master"
    /\ lastOp.result = "ok"
    /\ typed # <<>>
    /\ masters[fetched.id].password = HashOf(typed, "s1")
    /\ fetched.password # HashOf(typed, "s1")

\* C11: every decrypt_password call made by handle_get_account is given the
\* master password under which the stored secret was encrypted, after any
\* sequence of menu operations.
C11_SecretsStayDecryptable ==
    lastOp.op = "decrypt_password" =>
        /\ DecryptOk(lastOp.key, account.password)
        /\ lastOp.result = "ok"

\* C13: when handle_update_account has found the account, update_account
\* has been called with a record of that id before control is back at the
\* menu.
C13_FoundAccountIsUpdated ==
    (choice = "4" /\ pc = "menu" /\ account # NoAccount) =>
        /\ lastOp.op = "update_account"
        /\ updated_account.id = account.id

\* C12: when update_account_details runs with an empty new-password input,
\* the password of the record passed to update_account decrypts, under the
\* authenticated master password, to the plaintext the stored password
\* decrypts to.
C12_EmptyInputKeepsSecret ==
    ((pc = "upd_store" \/ lastOp.op = "update_account") /\ typed = <<>>) =>
        Decrypt(accepted.password, updated_account.password)
            = Decrypt(accepted.password, account.password)

\* C14: the menu reads a choice, and so a handler runs, only in a process
\* whose startup obtain_master_credentials has returned credentials, and it
\* returns them only from an Ok(true) verification.
C14_NoOperationBeforeAuthentication ==
    /\ [](choice # "none" => session.state # "none")
    /\ [](pc \notin {"obtain", "exit1"} => session.state # "none")
    /\ [][(session.state = "none" /\ session'.state # "none") =>
            (verdict' = "ok_true" /\ choice = "none")]_vars

C14_Witness ==
    /\ choice = "2"
    /\ pc = "menu"
    /\ session.state = "live"

\* C15: hash_master_password is never called with an empty plaintext.
C15_HasherInputNonEmpty ==
    lastOp.op = "hash_master_password" => lastOp.key # <<>>

C15_Witness ==
    /\ lastOp.op = "hash_master_password"
    /\ lastOp.result = "ok"
    /\ pc = "change_update"

\* C16: in single-master mode every verify_master call uses the username
\* "default" and the master record keeps the username it had.
C16_SingleIdentityFixed ==
    flag =>
        /\ lastOp.op = "verify_master" => lastOp.user = "default"
        /\ DOMAIN masters = DOMAIN InitMasters
        /\ \A i \in DOMAIN masters : masters[i].username = InitMasters[i].username

C16_Witness ==
    /\ flag
    /\ choice = "6"
    /\ lastOp.op = "update_master"
    /\ lastOp.result = "ok"
    /\ masters # InitMasters

\* C17: whenever N attempts are reported as remaining, N is 1 or 2, N is the
\* retry counter and 3 - N verifications have been made by the call, which
\* goes on; the counter is never negative, and a call that has used its 3
\* verifications without success reports exhaustion, not a count.
C17_RemainingCountExact ==
    /\ attempts >= 0
    /\ output.msg = "Invalid credentials. Please try again." =>
        /\ output.n \in {1, 2}
        /\ output.n = attempts
        /\ output.n = 3 - verifies
        /\ pc = "obtain"
    /\ (pc = "obtain" /\ verifies > 0) =>
        output.msg = "Invalid credentials. Please try again."
    /\ attempts = 0 =>
        /\ pc = "exit1"
        /\ verifies = 3
        /\ output = Say("Max attempts reached. Exiting...", 0)

C17_Witness ==
    /\ output = Say("Invalid credentials. Please try again.", 1)
    /\ verifies = 2
    /\ site = "change"
====
